---- MODULE Spec2Model ----
(***************************************************************************)
(* A model of Chemu, a CHIP-8 interpreter written in Rust.                 *)
(*                                                                         *)
(*   src/src/instruction.rs  the decoder (decode)                          *)
(*   src/src/machine.rs      the executor (Machine)                        *)
(*   src/src/display.rs      the 64x32 display (Display)                   *)
(*   src/src/keyboard.rs     the keypad (Keyboard)                         *)
(*   src/src/main.rs         the disassembling entry point (main)          *)
(*                                                                         *)
(* Spec is the machine built by Machine::from_file and driven through its  *)
(* public methods; SpecMain is main, which decodes a file word by word.    *)
(***************************************************************************)
EXTENDS Integers, Sequences, FiniteSets, TLC

VARIABLES
    file,               \* the bytes of the program file handed to from_file / main
    registers,          \* Machine.registers: 16 bytes, indexed 0..15
    address_register,   \* Machine.address_register
    program_counter,    \* Machine.program_counter
    stack_pointer,      \* Machine.stack_pointer
    delay_timer,        \* Machine.delay_timer
    sound_timer,        \* Machine.sound_timer
    memory,             \* Machine.memory, 4096 bytes indexed 0..4095, kept as the
                        \* map from the indices of its non-zero bytes to them
    pixels,             \* Display.pixels, kept as the set of the <<row, column>>
                        \* whose pixel is on
    update_pending,     \* Display.update_pending
    keys_pressed,       \* Keyboard.keys_pressed: a set of host keycodes
    status,             \* where the machine's thread is: "running" (between steps),
                        \* "next_key" (inside the LdKey loop, blocked in
                        \* Keyboard::next_key), "panicked" (the process aborted),
                        \* "none" (no Machine was built)
    executed,           \* log of the completed exec_next steps: the decoded
                        \* instruction and the state it started from
    buffer,             \* main: the two-byte read buffer
    bytes_read,         \* main: bytes_read
    output,             \* main: the decoded instructions
    instruction,        \* main: the last result of instruction::decode
    main_pc             \* main: "reading", "printing", "done", "failed", "none"

machine_vars == <<registers, address_register, program_counter, stack_pointer,
                  delay_timer, sound_timer, memory, pixels, update_pending,
                  keys_pressed, status, executed>>
main_vars == <<buffer, bytes_read, output, instruction, main_pc>>
vars == <<file, machine_vars, main_vars>>

----------------------------------------------------------------------------
(* Program constants *)

PROGRAM_START == 512
MEMORY_SIZE == 4096
STACK_START == 80
ADDR_SIZE == 2
OPCODE_SIZE == 2
WIDTH == 64
HEIGHT == 32
VF == 15
V0 == 0

DIGITS ==
    << 240, 144, 144, 144, 240,    \* 0
        32,  96,  32,  32, 112,    \* 1
       240,  16, 240, 128, 240,    \* 2
       240,  16, 240,  16, 240,    \* 3
       144, 144, 240,  16,  16,    \* 4
       240, 128, 240,  16, 240,    \* 5
       240, 128, 240, 144, 240,    \* 6
       240,  16,  32,  64,  64,    \* 7
       240, 144, 240, 144, 240,    \* 8
       240, 144, 240,  16, 240,    \* 9
       240, 144, 240, 144, 144,    \* A
       224, 144, 224, 144, 224,    \* B
       240, 128, 128, 128, 240,    \* C
       224, 144, 144, 144, 224,    \* D
       240, 128, 240, 128, 240,    \* E
       240, 128, 240, 128, 128 >>  \* F

----------------------------------------------------------------------------
(* Fixed-width integer helpers (u8 / u16 operators of Rust) *)

RECURSIVE BitAnd(_, _)
BitAnd(a, b) ==
    IF a = 0 \/ b = 0 THEN 0
    ELSE (a % 2) * (b % 2) + 2 * BitAnd(a \div 2, b \div 2)

RECURSIVE BitOr(_, _)
BitOr(a, b) ==
    IF a = 0 THEN b
    ELSE IF b = 0 THEN a
    ELSE (IF a % 2 = 1 \/ b % 2 = 1 THEN 1 ELSE 0) + 2 * BitOr(a \div 2, b \div 2)

RECURSIVE BitXor(_, _)
BitXor(a, b) ==
    IF a = 0 THEN b
    ELSE IF b = 0 THEN a
    ELSE ((a + b) % 2) + 2 * BitXor(a \div 2, b \div 2)

\* a >> n
ShiftRight(a, n) == a \div (2 ^ n)

\* u16::from_be_bytes([hi, lo])
FromBeBytes(hi, lo) == hi * 256 + lo

\* u16::to_be_bytes(v)
ToBeBytes(v) == << (v \div 256) % 256, v % 256 >>

\* v as u16
AsU16(v) == v % 65536

\* v as u8
AsU8(v) == v % 256

Ok(v) == [ok |-> TRUE, val |-> v]
Err(e) == [ok |-> FALSE, err |-> e]

----------------------------------------------------------------------------
(* machine.rs: impl TryFrom<u16> for Register *)

\* Register::try_from without the arm of VF
RegisterTryFromWithoutVF(value) ==
    IF value \in 0 .. 14 THEN Ok(value) ELSE Err([value |-> value])

RegisterTryFrom(value) ==
    IF value \in 0 .. 15 THEN Ok(value) ELSE Err([value |-> value])

----------------------------------------------------------------------------
(* instruction.rs: decode *)

IllegalOpCode(instr) == Err([instr |-> instr, error_kind |-> "IllegalOpCode"])

from_register_decode(instr, register_error) ==
    Err([instr |-> instr, error_kind |-> "RegisterDecodeError",
         register_error |-> register_error])

\* decode_alu with the selectors of the two subtractions exchanged
decode_alu_swapped(instr, dest, src) ==
    LET sel == BitAnd(instr, \h000F) IN
    CASE sel = 0 -> Ok([op |-> "LdReg", dest |-> dest, src |-> src])
      [] sel = 1 -> Ok([op |-> "Or", dest |-> dest, src |-> src])
      [] sel = 2 -> Ok([op |-> "And", dest |-> dest, src |-> src])
      [] sel = 3 -> Ok([op |-> "Xor", dest |-> dest, src |-> src])
      [] sel = 4 -> Ok([op |-> "AddReg", dest |-> dest, src |-> src])
      [] sel = 5 -> Ok([op |-> "SubNeg", dest |-> dest, src |-> src])
      [] sel = 6 -> Ok([op |-> "Shr", dest |-> dest, src |-> src])
      [] sel = 7 -> Ok([op |-> "Sub", dest |-> dest, src |-> src])
      [] sel = 14 -> Ok([op |-> "Shl", dest |-> dest, src |-> src])
      [] OTHER -> Err([instr |-> instr, error_kind |-> "IllegalOpCode"])

\* the 0x8000 family, once both registers are decoded
decode_alu(instr, dest, src) ==
    LET sel == BitAnd(instr, \h000F) IN
    CASE sel = 0 -> Ok([op |-> "LdReg", dest |-> dest, src |-> src])
      [] sel = 1 -> Ok([op |-> "Or", dest |-> dest, src |-> src])
      [] sel = 2 -> Ok([op |-> "And", dest |-> dest, src |-> src])
      [] sel = 3 -> Ok([op |-> "Xor", dest |-> dest, src |-> src])
      [] sel = 4 -> Ok([op |-> "AddReg", dest |-> dest, src |-> src])
      [] sel = 5 -> Ok([op |-> "Sub", dest |-> dest, src |-> src])
      [] sel = 6 -> Ok([op |-> "Shr", dest |-> dest, src |-> src])
      [] sel = 7 -> Ok([op |-> "SubNeg", dest |-> dest, src |-> src])
      [] sel = 14 -> Ok([op |-> "Shl", dest |-> dest, src |-> src])
      [] OTHER -> IllegalOpCode(instr)

\* decode_key without the error arm: every other low byte is taken for SkpNeg
decode_key_lenient(instr, register) ==
    LET sel == BitAnd(instr, \h00FF) IN
    CASE sel = \h009E -> Ok([op |-> "Skp", keycode |-> register])
      [] OTHER -> Ok([op |-> "SkpNeg", keycode |-> register])

\* the 0xE000 family, once the register is decoded
decode_key(instr, register) ==
    LET sel == BitAnd(instr, \h00FF) IN
    CASE sel = \h009E -> Ok([op |-> "Skp", keycode |-> register])
      [] sel = \h00A1 -> Ok([op |-> "SkpNeg", keycode |-> register])
      [] OTHER -> IllegalOpCode(instr)

\* the 0xF000 family, once the register is decoded
decode_misc(instr, register) ==
    LET sel == BitAnd(instr, \h00FF) IN
    CASE sel = \h0007 -> Ok([op |-> "ReadDelay", register |-> register])
      [] sel = \h000A -> Ok([op |-> "LdKey", register |-> register])
      [] sel = \h0015 -> Ok([op |-> "StrDelay", register |-> register])
      [] sel = \h0018 -> Ok([op |-> "StrSound", register |-> register])
      [] sel = \h001E -> Ok([op |-> "AddAddr", register |-> register])
      [] sel = \h0029 -> Ok([op |-> "LdDigit", register |-> register])
      [] sel = \h0033 -> Ok([op |-> "LdBcd", register |-> register])
      [] sel = \h0055 -> Ok([op |-> "StrArray", end |-> register])
      [] sel = \h0065 -> Ok([op |-> "LdArray", end |-> register])
      [] OTHER -> IllegalOpCode(instr)

decode(instr) ==
    LET family == BitAnd(instr, \hF000)
        addr == BitAnd(instr, \h0FFF)
        byte == AsU8(instr)
        rx == RegisterTryFrom(ShiftRight(BitAnd(instr, \h0F00), 8))
        ry == RegisterTryFrom(ShiftRight(BitAnd(instr, \h00F0), 4))
        ex == from_register_decode(instr, rx.err)
        ey == from_register_decode(instr, ry.err)
    IN
    CASE family = \h0000 ->
            IF instr = \h00E0 THEN Ok([op |-> "Clr"])
            ELSE IF instr = \h00EE THEN Ok([op |-> "Ret"])
            ELSE Ok([op |-> "Sys", addr |-> addr])
      [] family = \h1000 -> Ok([op |-> "Jmp", addr |-> addr])
      [] family = \h2000 -> Ok([op |-> "Call", addr |-> addr])
      [] family = \h3000 ->
            IF ~rx.ok THEN ex
            ELSE Ok([op |-> "SeImm", register |-> rx.val, value |-> byte])
      [] family = \h4000 ->
            IF ~rx.ok THEN ex
            ELSE Ok([op |-> "SneImm", register |-> rx.val, value |-> byte])
      [] family = \h5000 ->
            IF BitAnd(instr, \h000F) = 0
            THEN IF ~rx.ok THEN ex
                 ELSE IF ~ry.ok THEN ey
                 ELSE Ok([op |-> "SeReg", reg1 |-> rx.val, reg2 |-> ry.val])
            ELSE IllegalOpCode(instr)
      [] family = \h6000 ->
            IF ~rx.ok THEN ex
            ELSE Ok([op |-> "LdImm", register |-> rx.val, value |-> byte])
      [] family = \h7000 ->
            IF ~rx.ok THEN ex
            ELSE Ok([op |-> "AddImm", register |-> rx.val, value |-> byte])
      [] family = \h8000 ->
            IF ~rx.ok THEN ex
            ELSE IF ~ry.ok THEN ey
            ELSE decode_alu(instr, rx.val, ry.val)
      [] family = \h9000 ->
            IF BitAnd(instr, \h000F) = 0
            THEN IF ~rx.ok THEN ex
                 ELSE IF ~ry.ok THEN ey
                 ELSE Ok([op |-> "SneReg", reg1 |-> rx.val, reg2 |-> ry.val])
            ELSE IllegalOpCode(instr)
      [] family = \hA000 -> Ok([op |-> "LdAddr", addr |-> addr])
      [] family = \hB000 -> Ok([op |-> "JmpOff", base_addr |-> addr])
      [] family = \hC000 ->
            IF ~rx.ok THEN ex
            ELSE Ok([op |-> "Rnd", register |-> rx.val, mask |-> byte])
      [] family = \hD000 ->
            IF ~rx.ok THEN ex
            ELSE IF ~ry.ok THEN ey
            ELSE Ok([op |-> "Drw", x |-> rx.val, y |-> ry.val,
                     length |-> AsU8(BitAnd(instr, \h000F))])
      [] family = \hE000 ->
            IF ~rx.ok THEN ex ELSE decode_key(instr, rx.val)
      [] family = \hF000 ->
            IF ~rx.ok THEN ex ELSE decode_misc(instr, rx.val)
      [] OTHER -> IllegalOpCode(instr)

----------------------------------------------------------------------------
(* machine.rs: exec_instr, the effect of each instruction on the registers *)

LdImm(regs, register, value) == [regs EXCEPT ![register] = value]

\* wrapping_add
AddImm(regs, register, value) ==
    [regs EXCEPT ![register] = (regs[register] + value) % 256]

LdReg(regs, dest, src) == [regs EXCEPT ![dest] = regs[src]]

Or(regs, dest, src) == [regs EXCEPT ![dest] = BitOr(regs[dest], regs[src])]

And(regs, dest, src) == [regs EXCEPT ![dest] = BitAnd(regs[dest], regs[src])]

Xor(regs, dest, src) == [regs EXCEPT ![dest] = BitXor(regs[dest], regs[src])]

\* u8::overflowing_add: the wrapped sum, and whether the true sum left 0..255
overflowing_add(a, b) == [result |-> (a + b) % 256, overflow |-> a + b > 255]

\* u8::overflowing_sub: the wrapped difference, and whether the true one left 0..255
overflowing_sub(a, b) == [result |-> (a - b) % 256, overflow |-> a - b < 0]

\* AddReg that forgets to write the carry into VF
AddRegWithoutCarry(regs, dest, src) ==
    [regs EXCEPT ![dest] = overflowing_add(regs[dest], regs[src]).result]

\* the result is written first, then VF
AddReg(regs, dest, src) ==
    LET r == overflowing_add(regs[dest], regs[src]) IN
    [[regs EXCEPT ![dest] = r.result] EXCEPT ![VF] = IF r.overflow THEN 1 ELSE 0]

Sub(regs, dest, src) ==
    LET r == overflowing_sub(regs[dest], regs[src]) IN
    [[regs EXCEPT ![dest] = r.result] EXCEPT ![VF] = IF r.overflow THEN 1 ELSE 0]

\* Shr writing the flag first and the result last
ShrResultLast(regs, dest, src) ==
    LET value == regs[src]
        bit == BitAnd(value, 1)
    IN [[regs EXCEPT ![VF] = bit] EXCEPT ![dest] = value \div 2]

Shr(regs, dest, src) ==
    LET value == regs[src]
        bit == BitAnd(value, \h1)
    IN [[regs EXCEPT ![dest] = ShiftRight(value, 1)] EXCEPT ![VF] = bit]

SubNeg(regs, dest, src) ==
    LET r == overflowing_sub(regs[src], regs[dest]) IN
    [[regs EXCEPT ![dest] = r.result] EXCEPT ![VF] = IF r.overflow THEN 1 ELSE 0]

\* Shl with the flag normalised to 0 or 1
ShlNormalised(regs, dest, src) ==
    LET value == regs[src]
        bit == IF BitAnd(value, \h80) # 0 THEN 1 ELSE 0
    IN [[regs EXCEPT ![dest] = (value * 2) % 256] EXCEPT ![VF] = bit]

\* value << 1 on a u8 drops the bit shifted out
Shl(regs, dest, src) ==
    LET value == regs[src]
        bit == BitAnd(value, \h80)
    IN [[regs EXCEPT ![dest] = (value * 2) % 256] EXCEPT ![VF] = bit]

Rnd(regs, register, mask, val) == [regs EXCEPT ![register] = BitAnd(val, mask)]

ReadDelay(regs, register, delay) == [regs EXCEPT ![register] = delay]

----------------------------------------------------------------------------
(* machine.rs: exec_instr, memory accesses.  Indexing a Vec past its end     *)
(* panics; the writes made before the faulting index stay.                  *)

\* memory[a], for an index a inside the memory
Byte(mem, a) == IF a \in DOMAIN mem THEN mem[a] ELSE 0

\* memory[start + i] = bytes[i + 1] for every index inside the memory
WriteBytes(mem, start, bytes) ==
    LET Written(a) == a >= start /\ a < start + Len(bytes)
        New(a) == IF Written(a) THEN bytes[a - start + 1] ELSE mem[a]
        touched == { a \in start .. (start + Len(bytes) - 1) : a < MEMORY_SIZE }
    IN [a \in { x \in DOMAIN mem \cup touched : New(x) # 0 } |-> New(a)]

\* a slice check that lets every range through
InMemoryUnchecked(start, len) == TRUE

\* whether the slice memory[start..start + len] lies inside the memory
InMemory(start, len) == start + len <= MEMORY_SIZE

\* the three digits written by LdBcd
\* the digits with the tens not reduced modulo 10
BcdTensUnreduced(value) == << value \div 100, value \div 10, value % 10 >>

Bcd(value) == << value \div 100, (value % 100) \div 10, value % 10 >>

\* for i in 0..end: the indices the loop of StrArray / LdArray visits
ArrayRange(end) == 0 .. (end - 1)

\* whether every memory[addr + i] the loop indexes is inside the memory
ArrayInMemory(addr, end) == \A i \in ArrayRange(end) : addr + i < MEMORY_SIZE

\* StrArray: memory[I + i] = registers[i] for i in 0..end
StrArray(mem, regs, addr, end) ==
    WriteBytes(mem, addr, [i \in 1 .. Cardinality(ArrayRange(end)) |-> regs[i - 1]])

\* LdArray: registers[i] = memory[I + i] for i in 0..end
LdArray(mem, regs, addr, end) ==
    [r \in DOMAIN regs |->
        IF r \in ArrayRange(end) /\ addr + r < MEMORY_SIZE
        THEN Byte(mem, addr + r) ELSE regs[r]]

\* read_address: u16::from_be_bytes(memory[address..address + ADDR_SIZE])
read_address(mem, address) == FromBeBytes(Byte(mem, address), Byte(mem, address + 1))

----------------------------------------------------------------------------
(* display.rs *)

\* Display::clear
clear(px) == {}

\* a draw that lights the addressed pixels instead of flipping them
FlipToLit(px, addressed) == px \cup addressed

\* pixels[r][c] = !pixels[r][c] for each <<r, c>> addressed
Flip(px, addressed) == (px \ addressed) \cup (addressed \ px)

\* bit j (0 = leftmost) of a sprite row: mask 0x80 >> j
SpriteBit(row, j) == BitAnd(row, ShiftRight(\h80, j)) # 0

\* the inner loop of Display::draw: the pixels of grid row r that the set bits
\* of a sprite row address, bit j standing for column (x + j) % WIDTH
RowPixels(x, r, row) ==
    { << r, (x + j) % WIDTH >> : j \in { b \in 0 .. 7 : SpriteBit(row, b) } }

\* draw_from that clips at the right and bottom edges instead of wrapping
RECURSIVE draw_from_clipped(_, _, _, _, _)
draw_from_clipped(px, x, y, sprite, i) ==
    IF i >= Len(sprite) THEN px
    ELSE LET r == (y % HEIGHT) + i
             kept == { p \in RowPixels(x % WIDTH, r, sprite[i + 1]) :
                         r < HEIGHT /\ p[2] >= x % WIDTH }
         IN draw_from_clipped(Flip(px, kept), x, y, sprite, i + 1)

\* the outer loop of Display::draw from sprite row i onward: row i flips its
\* pixels in grid row (y + i) % HEIGHT
RECURSIVE draw_from(_, _, _, _, _)
draw_from(px, x, y, sprite, i) ==
    IF i >= Len(sprite) THEN px
    ELSE draw_from(Flip(px, RowPixels(x, (y + i) % HEIGHT, sprite[i + 1])),
                   x, y, sprite, i + 1)

\* Display::draw
draw(px, x, y, sprite) == draw_from(px, x, y, sprite, 0)

----------------------------------------------------------------------------
(* keyboard.rs *)

KeypadKeycodes ==
    {"Num0", "Num1", "Num2", "Num3", "Num4", "Num5", "Num6", "Num7", "Num8", "Num9",
     "A", "B", "C", "D", "E", "F"}

\* impl From<Keycode> for Key; other keycodes reach unimplemented!()
KeyFromKeycode(keycode) ==
    CASE keycode = "Num1" -> Ok(1)
      [] keycode = "Num2" -> Ok(2)
      [] keycode = "Num3" -> Ok(3)
      [] keycode = "Num4" -> Ok(4)
      [] keycode = "Num5" -> Ok(5)
      [] keycode = "Num6" -> Ok(6)
      [] keycode = "Num7" -> Ok(7)
      [] keycode = "Num8" -> Ok(8)
      [] keycode = "Num9" -> Ok(9)
      [] keycode = "Num0" -> Ok(0)
      [] keycode = "A" -> Ok(10)
      [] keycode = "B" -> Ok(11)
      [] keycode = "C" -> Ok(12)
      [] keycode = "D" -> Ok(13)
      [] keycode = "E" -> Ok(14)
      [] keycode = "F" -> Ok(15)
      [] OTHER -> Err("unimplemented")

\* impl Into<Keycode> for Key; other values reach unimplemented!()
KeycodeFromKey(key) ==
    CASE key = 1 -> Ok("Num1")
      [] key = 2 -> Ok("Num2")
      [] key = 3 -> Ok("Num3")
      [] key = 4 -> Ok("Num4")
      [] key = 5 -> Ok("Num5")
      [] key = 6 -> Ok("Num6")
      [] key = 7 -> Ok("Num7")
      [] key = 8 -> Ok("Num8")
      [] key = 9 -> Ok("Num9")
      [] key = 0 -> Ok("Num0")
      [] key = 10 -> Ok("A")
      [] key = 11 -> Ok("B")
      [] key = 12 -> Ok("C")
      [] key = 13 -> Ok("D")
      [] key = 14 -> Ok("E")
      [] key = 15 -> Ok("F")
      [] OTHER -> Err("unimplemented")

\* Keyboard::is_pressed; the conversion of the key may panic
is_pressed(pressed, key) ==
    LET keycode == KeycodeFromKey(key) IN
    IF keycode.ok THEN Ok(keycode.val \in pressed) ELSE keycode

\* one arm of the match in Keyboard::process_events (no conversion to Key)
poll_event(pressed, event) ==
    CASE event.type = "KeyDown" /\ event.keycode # "None" -> pressed \cup {event.keycode}
      [] event.type = "KeyUp" /\ event.keycode # "None" -> pressed \ {event.keycode}
      [] OTHER -> pressed

\* Keyboard::process_events: every pending event in order
RECURSIVE process_events(_, _)
process_events(pressed, events) ==
    IF events = << >> THEN pressed
    ELSE process_events(poll_event(pressed, Head(events)), Tail(events))

\* Keyboard::process_event: the new keys_pressed and the Option<KeyEvent>; the
\* keycode is converted to a Key before keys_pressed is touched
process_event(pressed, event) ==
    IF event.type \in {"KeyDown", "KeyUp"} /\ event.keycode # "None"
    THEN LET key == KeyFromKeycode(event.keycode) IN
         IF ~key.ok THEN [panic |-> TRUE, pressed |-> pressed, event |-> << >>]
         ELSE IF event.type = "KeyDown"
         THEN [panic |-> FALSE, pressed |-> pressed \cup {event.keycode},
               event |-> << [type |-> "KeyDown", key |-> key.val] >>]
         ELSE [panic |-> FALSE, pressed |-> pressed \ {event.keycode},
               event |-> << [type |-> "KeyUp", key |-> key.val] >>]
    ELSE [panic |-> FALSE, pressed |-> pressed, event |-> << >>]

----------------------------------------------------------------------------
(* machine.rs: the Machine and one step of it *)

\* the fields of the Machine as one record
Machine ==
    [registers |-> registers, address_register |-> address_register,
     program_counter |-> program_counter, stack_pointer |-> stack_pointer,
     delay_timer |-> delay_timer, sound_timer |-> sound_timer, memory |-> memory,
     pixels |-> pixels, update_pending |-> update_pending,
     keys_pressed |-> keys_pressed, status |-> status]

\* a panic: the process aborts with the state as it is
Panic(m) == [m EXCEPT !.status = "panicked"]

\* LdDigit: (registers[register] * 5) as usize, a u8 multiplication that panics
\* on overflow when the build checks overflow and wraps when it does not
LdDigit(m, register, overflow_checks) ==
    LET product == m.registers[register] * 5 IN
    IF product > 255 /\ overflow_checks THEN Panic(m)
    ELSE [m EXCEPT !.address_register = product % 256]

\* LdBcd: three writes in order; the first index past the memory panics
LdBcd(m, register) ==
    LET written == [m EXCEPT !.memory =
                       WriteBytes(m.memory, m.address_register, Bcd(m.registers[register]))]
    IN IF InMemory(m.address_register, 3) THEN written ELSE Panic(written)

\* the rows a Drw of the given length reads: memory[I .. I + length]
Sprite(m, length) ==
    [i \in 1 .. length |-> Byte(m.memory, m.address_register + i - 1)]

\* Drw that reports a collision: VF = 1 when the draw turned a lit pixel off
DrwReportingCollision(m, x, y, length) ==
    IF ~InMemory(m.address_register, length) THEN Panic(m)
    ELSE LET drawn == draw(m.pixels, m.registers[x], m.registers[y], Sprite(m, length))
         IN [m EXCEPT !.pixels = drawn,
                      !.update_pending = TRUE,
                      !.registers[VF] = IF m.pixels \ drawn # {} THEN 1 ELSE 0]

\* Drw: the slice of memory is taken (and checked) first, then drawn
Drw(m, x, y, length) ==
    IF ~InMemory(m.address_register, length) THEN Panic(m)
    ELSE [m EXCEPT
            !.pixels = draw(m.pixels, m.registers[x], m.registers[y], Sprite(m, length)),
            !.update_pending = TRUE]

\* the first match of exec_instr: instructions that do not alter control flow
value_effect(m, instr, random, overflow_checks) ==
    LET regs == m.registers IN
    CASE instr.op = "LdImm" ->
            [m EXCEPT !.registers = LdImm(regs, instr.register, instr.value)]
      [] instr.op = "AddImm" ->
            [m EXCEPT !.registers = AddImm(regs, instr.register, instr.value)]
      [] instr.op = "LdReg" -> [m EXCEPT !.registers = LdReg(regs, instr.dest, instr.src)]
      [] instr.op = "Or" -> [m EXCEPT !.registers = Or(regs, instr.dest, instr.src)]
      [] instr.op = "And" -> [m EXCEPT !.registers = And(regs, instr.dest, instr.src)]
      [] instr.op = "Xor" -> [m EXCEPT !.registers = Xor(regs, instr.dest, instr.src)]
      [] instr.op = "AddReg" -> [m EXCEPT !.registers = AddReg(regs, instr.dest, instr.src)]
      [] instr.op = "Sub" -> [m EXCEPT !.registers = Sub(regs, instr.dest, instr.src)]
      [] instr.op = "Shr" -> [m EXCEPT !.registers = Shr(regs, instr.dest, instr.src)]
      [] instr.op = "SubNeg" -> [m EXCEPT !.registers = SubNeg(regs, instr.dest, instr.src)]
      [] instr.op = "Shl" -> [m EXCEPT !.registers = Shl(regs, instr.dest, instr.src)]
      [] instr.op = "LdAddr" -> [m EXCEPT !.address_register = instr.addr]
      [] instr.op = "Rnd" ->
            [m EXCEPT !.registers = Rnd(regs, instr.register, instr.mask, random)]
      [] instr.op = "ReadDelay" ->
            [m EXCEPT !.registers = ReadDelay(regs, instr.register, m.delay_timer)]
      [] instr.op = "StrDelay" -> [m EXCEPT !.delay_timer = regs[instr.register]]
      [] instr.op = "StrSound" -> [m EXCEPT !.sound_timer = regs[instr.register]]
      [] instr.op = "AddAddr" ->
            [m EXCEPT !.address_register = m.address_register + regs[instr.register]]
      [] instr.op = "LdDigit" -> LdDigit(m, instr.register, overflow_checks)
      [] instr.op = "LdBcd" -> LdBcd(m, instr.register)
      [] instr.op = "StrArray" ->
            LET written == [m EXCEPT !.memory =
                               StrArray(m.memory, regs, m.address_register, instr.end)]
            IN IF ArrayInMemory(m.address_register, instr.end)
               THEN written ELSE Panic(written)
      [] instr.op = "LdArray" ->
            LET loaded == [m EXCEPT !.registers =
                              LdArray(m.memory, regs, m.address_register, instr.end)]
            IN IF ArrayInMemory(m.address_register, instr.end)
               THEN loaded ELSE Panic(loaded)
      [] instr.op = "Clr" -> [m EXCEPT !.pixels = clear(m.pixels), !.update_pending = TRUE]
      [] instr.op = "Drw" -> Drw(m, instr.x, instr.y, instr.length)
      \* the loop of LdKey has no exit: the thread blocks in Keyboard::next_key
      [] instr.op = "LdKey" -> [m EXCEPT !.status = "next_key"]
      [] instr.op \in {"Ret", "Jmp", "Call", "SeImm", "SneImm", "SeReg", "SneReg",
                       "JmpOff", "Skp", "SkpNeg"} -> m
      \* _ => unimplemented!()
      [] OTHER -> Panic(m)

\* Skip with its two branches exchanged
SkipInverted(m, condition) ==
    [m EXCEPT !.program_counter =
        IF condition THEN m.program_counter + OPCODE_SIZE
        ELSE m.program_counter + OPCODE_SIZE * 2]

\* Skip that skips an instruction and a half
SkipByThree(m, condition) ==
    [m EXCEPT !.program_counter =
        IF condition THEN m.program_counter + OPCODE_SIZE + 1
        ELSE m.program_counter + OPCODE_SIZE]

\* the advance of a conditional skip
Skip(m, condition) ==
    [m EXCEPT !.program_counter =
        IF condition THEN m.program_counter + OPCODE_SIZE * 2
        ELSE m.program_counter + OPCODE_SIZE]

\* Call that pushes the address of the call itself
CallPushingItself(m, addr) ==
    IF ~InMemory(m.stack_pointer, ADDR_SIZE) THEN Panic(m)
    ELSE [m EXCEPT !.memory = WriteBytes(m.memory, m.stack_pointer,
                                         ToBeBytes(AsU16(m.program_counter))),
                   !.stack_pointer = m.stack_pointer + ADDR_SIZE,
                   !.program_counter = addr]

\* Call with a stack limit: a push that would reach the program area fails
CallWithStackLimit(m, addr) ==
    LET ret_addr == AsU16(m.program_counter + OPCODE_SIZE) IN
    IF m.stack_pointer + ADDR_SIZE > PROGRAM_START THEN Panic(m)
    ELSE [m EXCEPT !.memory = WriteBytes(m.memory, m.stack_pointer, ToBeBytes(ret_addr)),
                   !.stack_pointer = m.stack_pointer + ADDR_SIZE,
                   !.program_counter = addr]

\* Call that pushes below the stack pointer (a pre-decrementing push)
CallPushingBelow(m, addr) ==
    IF m.stack_pointer < ADDR_SIZE THEN Panic(m)
    ELSE [m EXCEPT !.memory = WriteBytes(m.memory, m.stack_pointer - ADDR_SIZE,
                                         ToBeBytes(AsU16(m.program_counter + OPCODE_SIZE))),
                   !.stack_pointer = m.stack_pointer + ADDR_SIZE,
                   !.program_counter = addr]

\* Call: push program_counter + OPCODE_SIZE big-endian, then jump
Call(m, addr) ==
    LET ret_addr == AsU16(m.program_counter + OPCODE_SIZE) IN
    IF ~InMemory(m.stack_pointer, ADDR_SIZE) THEN Panic(m)
    ELSE [m EXCEPT !.memory = WriteBytes(m.memory, m.stack_pointer, ToBeBytes(ret_addr)),
                   !.stack_pointer = m.stack_pointer + ADDR_SIZE,
                   !.program_counter = addr]

\* Ret that reads at the stack pointer before it subtracts
RetReadingFirst(m) ==
    LET sp == m.stack_pointer - ADDR_SIZE IN
    IF sp < 0 \/ ~InMemory(m.stack_pointer, ADDR_SIZE) THEN Panic(m)
    ELSE [m EXCEPT !.stack_pointer = sp,
                   !.program_counter = read_address(m.memory, m.stack_pointer)]

\* Ret: pop, then jump to the popped address.  stack_pointer -= ADDR_SIZE below
\* zero panics (overflow checks) or wraps to an index far outside the memory,
\* where read_address panics
Ret(m) ==
    LET sp == m.stack_pointer - ADDR_SIZE IN
    IF sp < 0 THEN Panic(m)
    ELSE IF ~InMemory(sp, ADDR_SIZE) THEN Panic([m EXCEPT !.stack_pointer = sp])
    ELSE [m EXCEPT !.stack_pointer = sp,
                   !.program_counter = read_address(m.memory, sp)]

\* JmpOff: (base_addr + registers[V0] as u16) as usize
JmpOff(m, base_addr) ==
    [m EXCEPT !.program_counter = AsU16(base_addr + m.registers[V0])]

\* Skp / SkpNeg: skip when is_pressed(Key(registers[keycode])) equals want
SkipKey(m, keycode, want) ==
    LET pressed == is_pressed(m.keys_pressed, m.registers[keycode]) IN
    IF ~pressed.ok THEN Panic(m) ELSE Skip(m, pressed.val = want)

\* the second match of exec_instr: instructions that modify the program counter
control_flow(m, instr) ==
    LET regs == m.registers IN
    CASE instr.op = "Jmp" -> [m EXCEPT !.program_counter = instr.addr]
      [] instr.op = "Call" -> Call(m, instr.addr)
      [] instr.op = "Ret" -> Ret(m)
      [] instr.op = "SeImm" -> Skip(m, regs[instr.register] = instr.value)
      [] instr.op = "SneImm" -> Skip(m, regs[instr.register] # instr.value)
      [] instr.op = "SeReg" -> Skip(m, regs[instr.reg1] = regs[instr.reg2])
      [] instr.op = "SneReg" -> Skip(m, regs[instr.reg1] # regs[instr.reg2])
      [] instr.op = "JmpOff" -> JmpOff(m, instr.base_addr)
      [] instr.op = "Skp" -> SkipKey(m, instr.keycode, TRUE)
      [] instr.op = "SkpNeg" -> SkipKey(m, instr.keycode, FALSE)
      [] OTHER -> [m EXCEPT !.program_counter = m.program_counter + OPCODE_SIZE]

\* exec_instr: the value effect, then the control flow (unless the first phase
\* panicked or is still blocked)
exec_instr(m, instr, random, overflow_checks) ==
    LET after == value_effect(m, instr, random, overflow_checks) IN
    IF after.status = "running" THEN control_flow(after, instr) ELSE after

\* the result of decoding the two bytes at the program counter
fetch(m) == decode(FromBeBytes(Byte(m.memory, m.program_counter),
                               Byte(m.memory, m.program_counter + 1)))

\* exec_next that advances past the word before it decodes it
exec_next_advancing(m, random, overflow_checks) ==
    IF ~InMemory(m.program_counter, OPCODE_SIZE) THEN Panic(m)
    ELSE IF ~fetch(m).ok
         THEN Panic([m EXCEPT !.program_counter = m.program_counter + OPCODE_SIZE])
    ELSE exec_instr(m, fetch(m).val, random, overflow_checks)

\* exec_next: fetch, decode (unwrap), execute
exec_next(m, random, overflow_checks) ==
    IF ~InMemory(m.program_counter, OPCODE_SIZE) THEN Panic(m)
    ELSE IF ~fetch(m).ok THEN Panic(m)
    ELSE exec_instr(m, fetch(m).val, random, overflow_checks)

\* decrement_timers without the tests for zero: a wrapping decrement
decrement_timers_wrapping(m) ==
    [m EXCEPT !.delay_timer = (m.delay_timer + 255) % 256,
              !.sound_timer = (m.sound_timer + 255) % 256]

\* Machine::decrement_timers
decrement_timers(m) ==
    [m EXCEPT !.delay_timer = IF m.delay_timer > 0 THEN m.delay_timer - 1 ELSE m.delay_timer,
              !.sound_timer = IF m.sound_timer > 0 THEN m.sound_timer - 1 ELSE m.sound_timer]

----------------------------------------------------------------------------
(* Inputs: program files, host events, random bytes *)

\* the cap on the completed steps of one run
MaxSteps == 12

\* the longest sample file main reads, in words
MaxFileWords == 2

\* the bytes of a sequence of 16-bit words, big-endian, as a program file holds them
Bytes(words) ==
    [i \in 1 .. 2 * Len(words) |-> ToBeBytes(words[(i + 1) \div 2])[2 - (i % 2)]]

\* n zero words
Zeros(n) == [i \in 1 .. n |-> 0]

\* register contents the sample programs load
ByteVals == {1, 2, 3, 5, 255}

\* (first register, second register) operands of the sample programs
RegPairs == {<<1, 2>>, <<3, 3>>, <<0, 15>>, <<15, 1>>}

\* the low nibbles of the 0x8000 family
AluSelectors == {0, 1, 2, 3, 4, 5, 6, 7, 14}

\* load two registers, then one instruction of the 0x8000 family on them
AluPrograms ==
    { << \h6000 + p[1] * 256 + d, \h6000 + p[2] * 256 + s,
         \h8000 + p[1] * 256 + p[2] * 16 + sel >> :
        p \in RegPairs, d \in ByteVals, s \in ByteVals, sel \in AluSelectors }

\* load V0..V3, point I at addr, store V0..Vn, zero V0..V3, load V0..Vn back
ArrayPrograms ==
    { << \h6000 + v[1], \h6100 + v[2], \h6200 + v[3], \h6300 + v[4],
         \hA000 + addr, \hF055 + n * 256,
         \h6000, \h6100, \h6200, \h6300,
         \hF065 + n * 256 >> :
        v \in {<<1, 2, 3, 4>>, <<0, 0, 0, 0>>, <<255, 0, 7, 9>>},
        addr \in {\h300, \hFFE},
        n \in {0, 1, 3} }

\* subroutine calls and returns
CallPrograms ==
    { << \h2204, \h1202, \h00EE >>,                       \* call, return, halt loop
      << \h2204, \h1202, \h2208, \h00EE, \h00EE >>,       \* nested calls
      << \h2300 >> \o Zeros(127) \o << \h00EE >>,         \* call 0x300 from 512
      << \h1204, \h0000, \h2208, \h0000, \h00EE >>,       \* call from 516
      << \h2204, \h0000, \h2208, \h00EE, \h220C, \h00EE, \h00EE >>,  \* three deep
      << \h00EE >>,                                       \* return without a call
      << \h2200 >> }                                      \* unbounded recursion

\* jumps and skips
JumpPrograms ==
    { << \h1200 >>, << \h1203 >>, << \h1204, \h0000, \h1200 >>, << \h2203 >>,
      << \h6001, \hB204 >>, << \h6002, \hB204, \h0000, \h1206 >>,
      << \h1FFF >>, << \hBFFF >>,
      << \h6105, \h3105, \h0000, \h3106, \h4105, \h4106, \h0000, \h1210 >>,
      << \h6105, \h6205, \h5120, \h0000, \h9120, \h5130, \h9130, \h0000, \h1212 >>,
      << \h6101, \hE19E, \hE1A1, \h0000, \h120A >>,
      << \h6110, \hE19E >> }

\* the blocking key read
KeyPrograms ==
    { << \hF10A, \h6205, \h1204 >>, << \hFF0A >> }

\* words that decode to no instruction, and the empty file
ErrorPrograms ==
    { << \h5001 >>, << \h9002 >>, << \hE0FF >>, << \h800F >>, << \hF0FF >>,
      << \h6105, \h8128, \h6205 >>, << >> }

\* timers, the display, the address register, random bytes
DevicePrograms ==
    { << \h6103, \hF115, \hF118, \hF207, \h1208 >>,
      << \h6101, \hF129, \hD005, \hD005, \h00E0, \h120A >>,
      << \h613F, \h621F, \hA000, \hD125, \h1208 >>,
      << \h617B, \hA300, \hF133, \h1206 >>,
      << \h6133, \hF129, \h1204 >>, << \h6134, \hF129, \h1204 >>,
      << \hAFFF, \h61FF, \hF11E, \hF133 >>,
      << \hC10F, \h1202 >> }

\* V1 = v, I = 0x300 or 0x200 (the program itself), LdBcd V1
BcdPrograms ==
    { << \h6100 + v, \hA000 + addr, \hF133 >> :
          v \in {0, 7, 99, 100, 255}, addr \in {\h300, \h200} }

\* a delay of 2 read twice, and a sound timer set while the delay timer is 0
TimerPrograms ==
    { << \h6102, \hF115, \hF207, \hF307 >>, << \h6101, \hF118, \hF207 >> }

\* both timers set to 2, then Drw, Clr, Call 0x20E, Ret and the wait of LdKey
FramePrograms ==
    { << \h6102, \hF115, \hF118, \hD005, \h00E0, \h220E, \hF10A, \h00EE >> }

\* accesses that run past the last byte of memory: a fetch at 0xFFF, and LdBcd,
\* LdArray and Drw with I = 0xFFE
BoundsPrograms ==
    { << \h1FFF >>, << \hAFFE, \h617B, \hF133 >>, << \hAFFE, \hF365 >>,
      << \hAFFE, \hD003 >> }

\* stores aimed at the font: LdBcd at I = 0; StrArray of V0 at 0x4E; and
\* StrArray making the bytes at 0x4E read 0x0280, so that a Ret with no Call
\* outstanding lands on the Call at 0x280, which pushes at 0x4E
FontPrograms ==
    { << \h617B, \hF133 >>,
      << \h60AA, \h6100, \hA04E, \hF155 >>,
      << \h6002, \h6100, \hA04E, \hF155, \h00EE >> \o Zeros(59) \o << \h2290 >> }

\* the coordinates the drawing programs draw at: the origin, the last column
\* and row, inside the grid, and beyond it
DrawCoordinates == { <<0, 0>>, <<63, 31>>, <<60, 20>>, <<200, 255>> }

\* the sprite lengths of the drawing programs
DrawLengths == {0, 1, 2, 15}

\* the 16 bytes drawn from: rows 0xFF, 0x81, 0x3C, 0x01, ten empty rows, 0x80, 0xFF
SpriteWords == << \hFF81, \h3C01, 0, 0, 0, 0, 0, \h80FF >>

\* V1 = x, V2 = y, the digit 0 drawn at (V1, V2), then n rows of SpriteWords
\* (at 0x20C) drawn twice at (V1, V2)
DrawPrograms ==
    { << \h6100 + xy[1], \h6200 + xy[2], \hD125, \hA20C, \hD120 + n, \hD120 + n >>
          \o SpriteWords : xy \in DrawCoordinates, n \in DrawLengths }

Programs ==
    AluPrograms \cup ArrayPrograms \cup CallPrograms \cup JumpPrograms
        \cup KeyPrograms \cup ErrorPrograms \cup DevicePrograms \cup DrawPrograms
        \cup BcdPrograms \cup TimerPrograms \cup FontPrograms
        \cup FramePrograms \cup BoundsPrograms

\* the files the machine is built from
MachineFiles == { Bytes(words) : words \in Programs }

\* host keycodes: two keypad keys and one key outside the keypad
Keycodes == {"Num1", "F", "Space"}

\* the events the host's event pump delivers; "None" is a key event with no keycode
Events ==
    [type : {"KeyDown", "KeyUp"}, keycode : Keycodes \cup {"None"}]
        \cup { [type |-> "Quit", keycode |-> "None"] }

\* the keycodes of the events a poll of the event pump finds
PolledKeycodes == {"Num1", "Space"}

\* what one poll of the event pump finds pending
EventBatches ==
    { << >> }
        \cup { << e >> : e \in { x \in Events : x.keycode \in PolledKeycodes \cup {"None"} } }
        \cup { << [type |-> "KeyDown", keycode |-> "Space"],
                  [type |-> "KeyUp", keycode |-> "Space"] >> }

\* the bytes the random generator is seen to return
RandomBytes == {0, 165, 255}

----------------------------------------------------------------------------
(* The machine: Machine::from_file and its public methods *)

\* Machine::from_file: zeroed memory, the file from PROGRAM_START on (as much as
\* fits; a short file is tolerated), the digits at 0
from_file(f) ==
    LET Loaded(a) ==
            IF a < Len(DIGITS) THEN DIGITS[a + 1]
            ELSE IF a >= PROGRAM_START /\ a - PROGRAM_START < Len(f)
                 THEN f[a - PROGRAM_START + 1]
                 ELSE 0
        \* the indices that can hold a non-zero byte
        filled == (0 .. (Len(DIGITS) - 1))
                    \cup { a \in PROGRAM_START .. (PROGRAM_START + Len(f) - 1) :
                             a < MEMORY_SIZE }
    IN [a \in { x \in filled : Loaded(x) # 0 } |-> Loaded(a)]

\* main's variables while no main runs
MainIdle ==
    /\ buffer = << 0, 0 >>
    /\ bytes_read = 0
    /\ output = << >>
    /\ instruction = << >>
    /\ main_pc = "none"

Init ==
    /\ file \in MachineFiles
    /\ registers = [r \in 0 .. 15 |-> 0]
    /\ address_register = 0
    /\ program_counter = PROGRAM_START
    /\ stack_pointer = STACK_START
    /\ delay_timer = 0
    /\ sound_timer = 0
    /\ memory = from_file(file)
    /\ pixels = {}
    /\ update_pending = FALSE
    /\ keys_pressed = {}
    /\ status = "running"
    /\ executed = << >>
    /\ MainIdle

\* the Machine's fields become those of m
Becomes(m) ==
    /\ registers' = m.registers
    /\ address_register' = m.address_register
    /\ program_counter' = m.program_counter
    /\ stack_pointer' = m.stack_pointer
    /\ delay_timer' = m.delay_timer
    /\ sound_timer' = m.sound_timer
    /\ memory' = m.memory
    /\ pixels' = m.pixels
    /\ update_pending' = m.update_pending
    /\ keys_pressed' = m.keys_pressed
    /\ status' = m.status

\* what the log keeps of a step: the instruction and the state it started from
LogEntry(m) ==
    [instr |-> fetch(m).val, registers |-> m.registers,
     address_register |-> m.address_register, program_counter |-> m.program_counter,
     stack_pointer |-> m.stack_pointer, delay_timer |-> m.delay_timer,
     sound_timer |-> m.sound_timer, pixels |-> m.pixels]

\* the bytes self.random.gen() may return in this step: only Rnd draws one
RandomDraws(m) ==
    IF InMemory(m.program_counter, OPCODE_SIZE) /\ fetch(m).ok /\ fetch(m).val.op = "Rnd"
    THEN RandomBytes ELSE {0}

\* whether the build checks arithmetic overflow: it shows only in the
\* multiplication of LdDigit
OverflowBuilds(m) ==
    IF InMemory(m.program_counter, OPCODE_SIZE) /\ fetch(m).ok
          /\ fetch(m).val.op = "LdDigit"
    THEN BOOLEAN ELSE {TRUE}

\* Machine::exec_next
ExecNext ==
    /\ status = "running"
    /\ Len(executed) < MaxSteps
    /\ \E random \in RandomDraws(Machine), overflow_checks \in OverflowBuilds(Machine) :
          LET after == exec_next(Machine, random, overflow_checks) IN
          /\ Becomes(after)
          /\ executed' = IF after.status = "running"
                         THEN Append(executed, LogEntry(Machine))
                         ELSE executed
    /\ UNCHANGED <<file, main_vars>>

\* next_key during which the timers keep counting down
NextKeyTicking ==
    /\ status = "next_key"
    /\ \E event \in Events :
          LET got == process_event(keys_pressed, event) IN
          /\ keys_pressed' = got.pressed
          /\ status' = IF got.panic THEN "panicked" ELSE "next_key"
          /\ registers' = IF ~got.panic /\ got.event # << >> /\ got.event[1].type = "KeyDown"
                          THEN [registers EXCEPT ![fetch(Machine).val.register] = got.event[1].key]
                          ELSE registers
    /\ delay_timer' = IF delay_timer > 0 THEN delay_timer - 1 ELSE 0
    /\ sound_timer' = IF sound_timer > 0 THEN sound_timer - 1 ELSE 0
    /\ UNCHANGED <<file, address_register, program_counter, stack_pointer,
                   memory, pixels, update_pending, executed, main_vars>>

\* the register the pending LdKey writes
LdKeyRegister == fetch(Machine).val.register

\* Keyboard::next_key inside the loop of LdKey, for one event of the pump:
\* a key-down is returned and stored, and the loop calls next_key again
NextKey ==
    /\ status = "next_key"
    /\ \E event \in Events :
          LET got == process_event(keys_pressed, event) IN
          /\ keys_pressed' = got.pressed
          /\ status' = IF got.panic THEN "panicked" ELSE "next_key"
          /\ registers' = IF ~got.panic /\ got.event # << >> /\ got.event[1].type = "KeyDown"
                          THEN [registers EXCEPT ![LdKeyRegister] = got.event[1].key]
                          ELSE registers
    /\ UNCHANGED <<file, address_register, program_counter, stack_pointer, delay_timer,
                   sound_timer, memory, pixels, update_pending, executed, main_vars>>

\* Machine::decrement_timers
DecrementTimers ==
    /\ status = "running"
    /\ Becomes(decrement_timers(Machine))
    /\ UNCHANGED <<file, executed, main_vars>>

\* Machine::process_key_events
ProcessKeyEvents ==
    /\ status = "running"
    /\ \E events \in EventBatches : keys_pressed' = process_events(keys_pressed, events)
    /\ UNCHANGED <<file, registers, address_register, program_counter, stack_pointer,
                   delay_timer, sound_timer, memory, pixels, update_pending, status,
                   executed, main_vars>>

\* Machine::update_display (the canvas itself is not modelled)
UpdateDisplay ==
    /\ status = "running"
    /\ update_pending' = FALSE
    /\ UNCHANGED <<file, registers, address_register, program_counter, stack_pointer,
                   delay_timer, sound_timer, memory, pixels, keys_pressed, status,
                   executed, main_vars>>

Next == ExecNext \/ NextKey \/ DecrementTimers \/ ProcessKeyEvents \/ UpdateDisplay

Spec == Init /\ [][Next]_vars

\* the numbers of Calls already outstanding in the deep-recursion runs
Depths == 200 .. 216

\* the file of the deep-recursion runs: 22 00, a Call of its own address 0x200
RecursionFile == Bytes(<< \h2200 >>)

\* the memory of the machine built from RecursionFile after k Calls have
\* completed: each wrote the return address 0x0202 at the stack pointer, so
\* bytes 80 .. 80 + 2k - 1 all hold 0x02 (up to k = 216 they end below 512)
DeepMemory(k) ==
    LET loaded == from_file(RecursionFile)
        stack == STACK_START .. (STACK_START + ADDR_SIZE * k - 1)
    IN [a \in DOMAIN loaded \cup stack |-> IF a \in stack THEN \h02 ELSE loaded[a]]

\* Machine::from_file(RecursionFile) followed by k completed Calls
InitDeep ==
    /\ file = RecursionFile
    /\ \E k \in Depths :
          /\ stack_pointer = STACK_START + ADDR_SIZE * k
          /\ memory = DeepMemory(k)
    /\ registers = [r \in 0 .. 15 |-> 0]
    /\ address_register = 0
    /\ program_counter = PROGRAM_START
    /\ delay_timer = 0
    /\ sound_timer = 0
    /\ pixels = {}
    /\ update_pending = FALSE
    /\ keys_pressed = {}
    /\ status = "running"
    /\ executed = << >>
    /\ MainIdle

\* the deep-recursion runs: the machine is taken up after 200 to 216 Calls of
\* the program 22 00 and only exec_next is called
SpecDeep == InitDeep /\ [][ExecNext]_vars

\* the machine under a driving loop that keeps calling decrement_timers (the
\* 60 Hz tick) for as long as the machine runs
SpecTicking == Spec /\ WF_vars(DecrementTimers)

----------------------------------------------------------------------------
(* main.rs: main decodes the file two bytes at a time and prints the listing *)

\* words of the longer sample files
SampleWords == {\h00E0, \h1ABC, \h5001, \h6A3F}

\* all sequences over S of length lo .. hi
SeqsOf(S, lo, hi) == UNION { [1 .. n -> S] : n \in lo .. hi }

\* the files main is run on: every file of one word, sample files of more
\* words, and files with an odd byte left over
MainFiles ==
    { ToBeBytes(w) : w \in 0 .. 65535 }
        \cup { Bytes(ws) : ws \in SeqsOf(SampleWords, 0, MaxFileWords) }
        \cup { Bytes(ws) \o << 18 >> : ws \in SeqsOf(SampleWords, 0, 1) }

\* no Machine is built by main
NoMachine ==
    /\ registers = << >>
    /\ address_register = 0
    /\ program_counter = 0
    /\ stack_pointer = 0
    /\ delay_timer = 0
    /\ sound_timer = 0
    /\ memory = << >>
    /\ pixels = {}
    /\ update_pending = FALSE
    /\ keys_pressed = {}
    /\ status = "none"
    /\ executed = << >>

InitMain ==
    /\ file \in MainFiles
    /\ NoMachine
    /\ buffer = << 0, 0 >>
    /\ bytes_read = 0
    /\ output = << >>
    /\ instruction = << >>
    /\ main_pc = "reading"

\* one turn of the 'reading loop: read_exact into the buffer, decode, push.
\* The reader stands at bytes_read at the head of every turn.
MainRead ==
    /\ main_pc = "reading"
    /\ IF Len(file) - bytes_read < 2
       THEN \* UnexpectedEof: break; a last odd byte has been read into the buffer
            /\ buffer' = IF Len(file) - bytes_read = 1
                         THEN << file[bytes_read + 1], buffer[2] >> ELSE buffer
            /\ main_pc' = "printing"
            /\ UNCHANGED <<bytes_read, output, instruction>>
       ELSE LET read == << file[bytes_read + 1], file[bytes_read + 2] >>
                decoded == decode(FromBeBytes(read[1], read[2]))
            IN /\ buffer' = read
               /\ instruction' = << decoded >>
               /\ IF decoded.ok
                  THEN /\ output' = Append(output, decoded.val)
                       /\ bytes_read' = bytes_read + 2
                       /\ main_pc' = "reading"
                  ELSE \* the error is reported and main returns
                       /\ main_pc' = "failed"
                       /\ UNCHANGED <<bytes_read, output>>
    /\ UNCHANGED <<file, machine_vars>>

\* the listing is printed, one line per decoded instruction
MainPrint ==
    /\ main_pc = "printing"
    /\ main_pc' = "done"
    /\ UNCHANGED <<file, machine_vars, buffer, bytes_read, output, instruction>>

NextMain == MainRead \/ MainPrint

SpecMain == InitMain /\ [][NextMain]_vars

----------------------------------------------------------------------------
(* Properties of the executor, checked under Spec *)

\* the entry of the last completed step, and of the one before it
Last == executed[Len(executed)]
Prev == executed[Len(executed) - 1]

\* the machine stands right after a completed step of instruction op
AfterStep(op) == status = "running" /\ executed # << >> /\ Last.instr.op = op

\* C1: Sub{dest, src} with dest # VF and register values d and s leaves
\* dest = (d - s) mod 256 and VF = 1 when d >= s (no borrow), VF = 0 when d < s.
SubSetsNoBorrowFlag ==
    (AfterStep("Sub") /\ Last.instr.dest # VF) =>
        LET d == Last.registers[Last.instr.dest]
            s == Last.registers[Last.instr.src]
        IN /\ registers[Last.instr.dest] = (d - s) % 256
           /\ registers[VF] = IF d >= s THEN 1 ELSE 0

\* C2: SubNeg{dest, src} with dest # VF and register values d and s leaves
\* dest = (s - d) mod 256 and VF = 1 when s >= d (no borrow), VF = 0 when s < d.
SubNegSetsNoBorrowFlag ==
    (AfterStep("SubNeg") /\ Last.instr.dest # VF) =>
        LET d == Last.registers[Last.instr.dest]
            s == Last.registers[Last.instr.src]
        IN /\ registers[Last.instr.dest] = (s - d) % 256
           /\ registers[VF] = IF s >= d THEN 1 ELSE 0

\* C3: AddReg{dest, src} with dest # VF and register values d and s leaves
\* dest = (d + s) mod 256 and VF = 1 exactly when d + s > 255, otherwise 0.
AddRegSetsCarryFlag ==
    (AfterStep("AddReg") /\ Last.instr.dest # VF) =>
        LET d == Last.registers[Last.instr.dest]
            s == Last.registers[Last.instr.src]
        IN /\ registers[Last.instr.dest] = (d + s) % 256
           /\ registers[VF] = IF d + s > 255 THEN 1 ELSE 0

\* C3 witness: 0xFF + 0x02 has been added into a register other than VF,
\* leaving 0x01 there and the carry in VF.
AddRegCarryWitness ==
    /\ AfterStep("AddReg")
    /\ Last.instr.dest # VF
    /\ Last.registers[Last.instr.dest] = 255
    /\ Last.registers[Last.instr.src] = 2
    /\ registers[Last.instr.dest] = 1
    /\ registers[VF] = 1

\* C4: StrArray{end = Vn} leaves memory[I + i] = Vi for every i in 0..n, the end
\* register included, and LdArray{end = Vn} leaves Vi = memory[I + i] for every
\* i in 0..n, the end register included.
ArrayCopiesThroughEnd ==
    /\ AfterStep("StrArray") =>
          \A i \in 0 .. Last.instr.end :
              Byte(memory, address_register + i) = Last.registers[i]
    /\ AfterStep("LdArray") =>
          \A i \in 0 .. Last.instr.end :
              registers[i] = Byte(memory, address_register + i)

\* C5: StrArray{Vn}, then zeroing the registers, then LdArray{Vn} at the same
\* address register restores V0..Vn, Vn included, to the values stored.
ArrayRoundTrip ==
    AfterStep("LdArray") =>
        \A k \in 1 .. (Len(executed) - 1) :
            ( /\ executed[k].instr.op = "StrArray"
              /\ executed[k].instr.end = Last.instr.end
              /\ executed[k].address_register = Last.address_register
              /\ \A j \in (k + 1) .. (Len(executed) - 1) :
                    executed[j].instr.op = "LdImm" /\ executed[j].instr.value = 0
              /\ \A r \in 0 .. 15 : Last.registers[r] = 0 )
            => \A i \in 0 .. Last.instr.end : registers[i] = executed[k].registers[i]

\* C6: Call{addr} from program counter p and stack pointer s, immediately
\* followed by Ret, leaves the program counter at p + 2 and the stack pointer at s.
CallRetRoundTrip ==
    ( /\ status = "running"
      /\ Len(executed) >= 2
      /\ Prev.instr.op = "Call"
      /\ Last.instr.op = "Ret" )
    => /\ program_counter = Prev.program_counter + 2
       /\ stack_pointer = Prev.stack_pointer

\* C6 witness: the call from 512 to 0x300 has returned to 514 with the stack
\* pointer back at its start.
CallRetWitness ==
    /\ status = "running"
    /\ Len(executed) >= 2
    /\ Prev.instr = [op |-> "Call", addr |-> \h300]
    /\ Prev.program_counter = 512
    /\ Last.instr.op = "Ret"
    /\ Last.stack_pointer = STACK_START + ADDR_SIZE
    /\ program_counter = 514
    /\ stack_pointer = STACK_START

\* C7: while LdKey waits in next_key, a key-down of a keypad key completes the
\* step: the key's value is in the target register, the program counter has
\* advanced by 2 and the machine is ready for the next instruction.
LdKeyCompletesOnKeyDown ==
    [][ \A k \in KeypadKeycodes :
           (status = "next_key" /\ k \notin keys_pressed /\ k \in keys_pressed')
           => /\ status' = "running"
              /\ program_counter' = program_counter + 2
              /\ registers'[LdKeyRegister] = KeyFromKeycode(k).val ]_vars

\* the program counter a completed step k left behind
ResultPc(k) ==
    IF k < Len(executed) THEN executed[k + 1].program_counter ELSE program_counter

\* C8: the program counter is even in every state reached by completed steps.
PcAlwaysEven == status = "running" => program_counter % 2 = 0

\* C8 (amended): the program counter is even as long as every Jmp, Call, Ret and
\* JmpOff completed so far went to an even address; the other instructions
\* advance it by 2 or 4.
PcEvenUnlessOddTarget ==
    (\A k \in 1 .. Len(executed) :
        executed[k].instr.op \in {"Jmp", "Call", "Ret", "JmpOff"} => ResultPc(k) % 2 = 0)
    => program_counter % 2 = 0

\* C8 witness: a taken skip has moved an even program counter on by 4.
SkipTakenWitness ==
    /\ AfterStep("SeImm")
    /\ Last.registers[Last.instr.register] = Last.instr.value
    /\ program_counter = Last.program_counter + 4
    /\ program_counter % 2 = 0

----------------------------------------------------------------------------
(* Properties of the decoder, checked under SpecMain *)

\* the word main has just handed to decode
BufferWord == FromBeBytes(buffer[1], buffer[2])

\* main holds the result of decoding BufferWord
Decoded == instruction # << >> /\ main_pc \in {"reading", "failed"}

\* the fields of a word by position: family = bits 12-15, first register =
\* bits 8-11, second register = bits 4-7, low nibble = bits 0-3, low byte =
\* bits 0-7, address = bits 0-11
Family(w) == w \div 4096
FirstReg(w) == (w \div 256) % 16
SecondReg(w) == (w \div 16) % 16
LowNibble(w) == w % 16
LowByte(w) == w % 256
Address(w) == w % 4096

\* the words that match no opcode of the table
Unmatched(w) ==
    \/ Family(w) \in {5, 9} /\ LowNibble(w) # 0
    \/ Family(w) = 8 /\ LowNibble(w) \notin {0, 1, 2, 3, 4, 5, 6, 7, 14}
    \/ Family(w) = 14 /\ LowByte(w) \notin {\h9E, \hA1}
    \/ Family(w) = 15 /\ LowByte(w) \notin {\h07, \h0A, \h15, \h18, \h1E, \h29, \h33, \h55, \h65}

\* the opcode table: the instruction a matching word stands for
Expected(w) ==
    LET x == FirstReg(w)
        y == SecondReg(w)
        kk == LowByte(w)
        nnn == Address(w)
        AluName == [n \in {0, 1, 2, 3, 4, 5, 6, 7, 14} |->
                       CASE n = 0 -> "LdReg" [] n = 1 -> "Or" [] n = 2 -> "And"
                         [] n = 3 -> "Xor" [] n = 4 -> "AddReg" [] n = 5 -> "Sub"
                         [] n = 6 -> "Shr" [] n = 7 -> "SubNeg" [] n = 14 -> "Shl"]
        MiscName == [b \in {\h07, \h0A, \h15, \h18, \h1E, \h29, \h33} |->
                       CASE b = \h07 -> "ReadDelay" [] b = \h0A -> "LdKey"
                         [] b = \h15 -> "StrDelay" [] b = \h18 -> "StrSound"
                         [] b = \h1E -> "AddAddr" [] b = \h29 -> "LdDigit"
                         [] b = \h33 -> "LdBcd"]
    IN
    CASE w = \h00E0 -> [op |-> "Clr"]
      [] w = \h00EE -> [op |-> "Ret"]
      [] Family(w) = 0 /\ w \notin {\h00E0, \h00EE} -> [op |-> "Sys", addr |-> nnn]
      [] Family(w) = 1 -> [op |-> "Jmp", addr |-> nnn]
      [] Family(w) = 2 -> [op |-> "Call", addr |-> nnn]
      [] Family(w) = 3 -> [op |-> "SeImm", register |-> x, value |-> kk]
      [] Family(w) = 4 -> [op |-> "SneImm", register |-> x, value |-> kk]
      [] Family(w) = 5 -> [op |-> "SeReg", reg1 |-> x, reg2 |-> y]
      [] Family(w) = 6 -> [op |-> "LdImm", register |-> x, value |-> kk]
      [] Family(w) = 7 -> [op |-> "AddImm", register |-> x, value |-> kk]
      [] Family(w) = 8 -> [op |-> AluName[LowNibble(w)], dest |-> x, src |-> y]
      [] Family(w) = 9 -> [op |-> "SneReg", reg1 |-> x, reg2 |-> y]
      [] Family(w) = 10 -> [op |-> "LdAddr", addr |-> nnn]
      [] Family(w) = 11 -> [op |-> "JmpOff", base_addr |-> nnn]
      [] Family(w) = 12 -> [op |-> "Rnd", register |-> x, mask |-> kk]
      [] Family(w) = 13 -> [op |-> "Drw", x |-> x, y |-> y, length |-> LowNibble(w)]
      [] Family(w) = 14 /\ kk = \h9E -> [op |-> "Skp", keycode |-> x]
      [] Family(w) = 14 /\ kk = \hA1 -> [op |-> "SkpNeg", keycode |-> x]
      [] Family(w) = 15 /\ kk = \h55 -> [op |-> "StrArray", end |-> x]
      [] Family(w) = 15 /\ kk = \h65 -> [op |-> "LdArray", end |-> x]
      [] Family(w) = 15 /\ kk \notin {\h55, \h65} -> [op |-> MiscName[kk], register |-> x]

\* C9: for every word that matches no opcode, decode returns a decode error
\* that carries exactly that word (and main stops on it).
UnmatchedWordIsDecodeError ==
    (Decoded /\ Unmatched(BufferWord)) =>
        /\ ~instruction[1].ok
        /\ instruction[1].err.instr = BufferWord
        /\ main_pc = "failed"

\* C9 witness: the word 0xE0FF has been decoded to an error carrying 0xE0FF.
UnmatchedWordWitness ==
    /\ Decoded
    /\ BufferWord = \hE0FF
    /\ Unmatched(BufferWord)
    /\ ~instruction[1].ok
    /\ instruction[1].err.instr = \hE0FF

\* C10: for every word that matches an opcode, decode returns that opcode's
\* variant with its operands taken from the fixed bit positions.
MatchedWordDecodesToTable ==
    (Decoded /\ ~Unmatched(BufferWord)) =>
        /\ instruction[1].ok
        /\ instruction[1].val = Expected(BufferWord)

\* C10 witness: 0x8127 has been decoded to SubNeg{dest V1, src V2} and pushed
\* to the output.
MatchedWordWitness ==
    /\ Decoded
    /\ BufferWord = \h8127
    /\ instruction[1].ok
    /\ instruction[1].val = [op |-> "SubNeg", dest |-> 1, src |-> 2]
    /\ output = << [op |-> "SubNeg", dest |-> 1, src |-> 2] >>

\* C11: register decoding is total: whatever word is decoded, the result is
\* never a register-decode error (a failure can only be an illegal opcode).
RegisterDecodeIsTotal ==
    Decoded =>
        \/ instruction[1].ok
        \/ instruction[1].err.error_kind # "RegisterDecodeError"

\* C11 witness: 0x8FF4, whose two register nibbles are both 15, has been
\* decoded to AddReg{dest VF, src VF}.
RegisterDecodeWitness ==
    /\ Decoded
    /\ BufferWord = \h8FF4
    /\ FirstReg(BufferWord) = 15
    /\ instruction[1].ok
    /\ instruction[1].val = [op |-> "AddReg", dest |-> VF, src |-> VF]

----------------------------------------------------------------------------
(* Properties of single steps of the executor, checked under Spec *)

\* the instruction of the step being taken, when the step is an exec_next that
\* completes (it is the entry the step appends to the log)
Stepped == executed'[Len(executed')].instr

\* the step being taken is a completed exec_next of an instruction named op
Step(op) == Len(executed') = Len(executed) + 1 /\ Stepped.op = op

\* the condition under which a conditional skip skips, in the state it starts from
SkipCondition(instr) ==
    CASE instr.op = "SeImm" -> registers[instr.register] = instr.value
      [] instr.op = "SneImm" -> registers[instr.register] # instr.value
      [] instr.op = "SeReg" -> registers[instr.reg1] = registers[instr.reg2]
      [] instr.op = "SneReg" -> registers[instr.reg1] # registers[instr.reg2]

\* C12: a step of SeImm, SneImm, SeReg or SneReg adds 4 to the program
\* counter when its condition holds and 2 otherwise, and changes nothing else
\* of the machine.
SkipsAdvanceOnly ==
    [][\A op \in {"SeImm", "SneImm", "SeReg", "SneReg"} :
          Step(op) =>
              /\ program_counter' = program_counter
                                        + (IF SkipCondition(Stepped) THEN 4 ELSE 2)
              /\ UNCHANGED <<registers, address_register, stack_pointer, delay_timer,
                             sound_timer, memory, pixels, update_pending, keys_pressed,
                             status>>]_vars

\* C12 witness: SneReg V1, V3 with V1 = 5 and V3 = 0 has skipped from 0x20C
\* to 0x210.
SkipsAdvanceWitness ==
    /\ AfterStep("SneReg")
    /\ Last.instr = [op |-> "SneReg", reg1 |-> 1, reg2 |-> 3]
    /\ Last.registers[1] = 5 /\ Last.registers[3] = 0
    /\ Last.program_counter = \h20C
    /\ program_counter = \h210

----------------------------------------------------------------------------
(* Properties of the display, checked under Spec *)

\* the last two completed steps drew the same rows of memory at the same
\* coordinates
DrewTwice ==
    /\ status = "running"
    /\ Len(executed) >= 2
    /\ Last.instr.op = "Drw"
    /\ Prev.instr = Last.instr
    /\ Prev.address_register = Last.address_register
    /\ Prev.registers[Prev.instr.x] = Last.registers[Last.instr.x]
    /\ Prev.registers[Prev.instr.y] = Last.registers[Last.instr.y]

\* C13: after the same sprite has been drawn twice at the same coordinates,
\* every pixel of the grid has the value it had before the first draw (so a
\* display that was all off is all off again).
DoubleDrawRestores == DrewTwice => pixels = Prev.pixels

\* C13 witness: a sprite of 15 rows has been drawn twice at (63, 31) over a
\* display that had pixels lit; the first draw turned some of them off and
\* lit others, and the second draw brought the display back.
DoubleDrawWitness ==
    /\ DrewTwice
    /\ Last.instr.length = 15
    /\ Last.registers[Last.instr.x] = 63 /\ Last.registers[Last.instr.y] = 31
    /\ Prev.pixels # {}
    /\ Prev.pixels \ Last.pixels # {}
    /\ Last.pixels \ Prev.pixels # {}
    /\ pixels = Prev.pixels

\* whether column j (0 = leftmost) of a sprite row byte is set: bit 7 - j
ColumnSet(row, j) == (row \div (2 ^ (7 - j))) % 2 = 1

\* the pixels <<row, column>> a draw of n rows from address addr at (x, y)
\* addresses with a set bit, wrapped onto the grid
Addressed(addr, n, x, y) ==
    { << (y + i) % 32, (x + j) % 64 >> :
          <<i, j>> \in { ij \in (0 .. (n - 1)) \X (0 .. 7) :
                            ColumnSet(Byte(memory, addr + ij[1]), ij[2]) } }

\* C14: a draw at (x, y) flips exactly the pixels at column (x + j) mod 64,
\* row (y + i) mod 32 for the set bits (row i, column j) of the sprite, for
\* any 8-bit x and y: those pixels change value and no other pixel does.
DrawWrapsNeverClips ==
    AfterStep("Drw") =>
        LET flipped == Addressed(Last.address_register, Last.instr.length,
                                 Last.registers[Last.instr.x],
                                 Last.registers[Last.instr.y])
        IN pixels = (Last.pixels \ flipped) \cup (flipped \ Last.pixels)

\* C14 witness: a row 0xFF drawn at x = 63, y = 31 has flipped its 8th
\* column at x = 6 and its first at x = 63, both in row 31.
DrawWrapsWitness ==
    /\ AfterStep("Drw")
    /\ Last.registers[Last.instr.x] = 63 /\ Last.registers[Last.instr.y] = 31
    /\ Last.instr.length = 1
    /\ Byte(memory, Last.address_register) = \hFF
    /\ (<<31, 6>> \in pixels) # (<<31, 6>> \in Last.pixels)
    /\ (<<31, 63>> \in pixels) # (<<31, 63>> \in Last.pixels)
    /\ (<<31, 7>> \in pixels) = (<<31, 7>> \in Last.pixels)

----------------------------------------------------------------------------
(* Properties of LdBcd, checked under Spec *)

\* the non-zero bytes of mem outside the addresses written
Elsewhere(mem, written) == [a \in DOMAIN mem \ written |-> mem[a]]

\* C15: a step of LdBcd{register} with register value v and address register
\* I leaves memory[I] = v / 100, memory[I+1] = (v / 10) mod 10 and
\* memory[I+2] = v mod 10, three digits 0..9 with 100a + 10b + c = v, and
\* changes no other memory byte and no register.
LdBcdWritesDigits ==
    [][Step("LdBcd") =>
          LET v == registers[Stepped.register]
              I == address_register
              hundreds == Byte(memory', I)
              tens == Byte(memory', I + 1)
              ones == Byte(memory', I + 2)
          IN /\ hundreds = v \div 100
             /\ tens = (v \div 10) % 10
             /\ ones = v % 10
             /\ {hundreds, tens, ones} \subseteq 0 .. 9
             /\ 100 * hundreds + 10 * tens + ones = v
             /\ Elsewhere(memory', {I, I + 1, I + 2})
                    = Elsewhere(memory, {I, I + 1, I + 2})
             /\ UNCHANGED <<registers, address_register, stack_pointer, delay_timer,
                            sound_timer>>]_vars

\* C15 witness: LdBcd V1 with V1 = 123 and I = 0x300 has written 1, 2, 3 at
\* 0x300..0x302.
LdBcdWitness ==
    /\ AfterStep("LdBcd")
    /\ Last.registers[Last.instr.register] = 123
    /\ Last.address_register = \h300
    /\ Byte(memory, \h300) = 1 /\ Byte(memory, \h301) = 2 /\ Byte(memory, \h302) = 3

----------------------------------------------------------------------------
(* Properties of the timers, checked under SpecTicking *)

\* a timer one tick later
Ticked(timer) == IF timer > 0 THEN timer - 1 ELSE 0

\* the two timers
timers == <<delay_timer, sound_timer>>

\* what each kind of step does to the timers: a step that is no completed
\* instruction changes them only as one tick does; StrDelay and StrSound store
\* the register; ReadDelay reads the delay timer; no other instruction
\* touches them
TimerSteps ==
    [][/\ (executed' = executed /\ timers' # timers) =>
              /\ delay_timer' = Ticked(delay_timer)
              /\ sound_timer' = Ticked(sound_timer)
       /\ Step("StrDelay") =>
              /\ delay_timer' = registers[Stepped.register]
              /\ sound_timer' = sound_timer
       /\ Step("StrSound") =>
              /\ sound_timer' = registers[Stepped.register]
              /\ delay_timer' = delay_timer
       /\ Step("ReadDelay") =>
              /\ registers' = [registers EXCEPT ![Stepped.register] = delay_timer]
              /\ timers' = timers
       /\ (Len(executed') = Len(executed) + 1 /\ Stepped.op \notin {"StrDelay", "StrSound"})
              => timers' = timers]_vars

\* the machine cannot run on for ever with a non-zero timer and no further
\* instruction executed: time and again the timers are both 0, or the machine
\* has stopped running, or an instruction is executed
TimersRunOut ==
    \/ []<>(timers = <<0, 0>> \/ status # "running")
    \/ []<><<ExecNext>>_vars

\* C16: a tick lowers each non-zero timer by exactly 1 and leaves a zero timer
\* at 0; apart from ticks only StrDelay and StrSound change a timer, and
\* ReadDelay returns the delay timer (so after a store of v and n ticks it
\* returns max(v - n, 0)); under repeated ticks, with no further store, both
\* timers reach 0, where they stay.
TimersCountDown == TimerSteps /\ TimersRunOut

\* C16 witness: after StrDelay stored 2, ticks have taken the delay timer to
\* 0 and ReadDelay has read 0 into V3, the earlier ReadDelay having read 1
\* into V2.
TimersWitness ==
    /\ AfterStep("ReadDelay")
    /\ Len(executed) = 4
    /\ executed[2].instr = [op |-> "StrDelay", register |-> 1]
    /\ executed[2].registers[1] = 2
    /\ registers[2] = 1
    /\ registers[3] = 0
    /\ delay_timer = 0

----------------------------------------------------------------------------
(* Properties of failures, checked under Spec *)

\* the machine runs and the two bytes at the program counter do not decode
Undecodable ==
    /\ status = "running"
    /\ InMemory(program_counter, OPCODE_SIZE)
    /\ ~fetch(Machine).ok

\* from a state where the word at the program counter does not decode, no
\* step executes an instruction or moves the program counter, and the step
\* of exec_next ends the run leaving registers, memory, stack pointer and
\* timers as they were; once the run has ended nothing changes any more
DecodeErrorStops ==
    [][/\ Undecodable =>
              /\ executed' = executed
              /\ UNCHANGED <<program_counter, registers, address_register,
                             stack_pointer, memory, pixels>>
              /\ status' # "running" =>
                     /\ status' = "panicked"
                     /\ UNCHANGED <<delay_timer, sound_timer, keys_pressed,
                                    update_pending>>
       /\ status = "panicked" => UNCHANGED vars]_vars

\* where the word at the program counter does not decode, exec_next can only
\* fail: its step is one that ends the run
DecodeErrorFails ==
    [](Undecodable /\ Len(executed) < MaxSteps =>
          /\ ENABLED ExecNext
          /\ ~ENABLED (ExecNext /\ status' # "panicked"))

\* C17: a decode error is terminal: exec_next fails (a panic that nothing in
\* the machine catches), the undecodable word is not skipped (program
\* counter, registers, memory, stack pointer and timers are as before the
\* step), and no later instruction executes.
DecodeErrorIsTerminal == DecodeErrorStops /\ DecodeErrorFails

\* C17 witness: after LdImm V1, 5 the word 0x8128 at 0x202 did not decode:
\* the run has ended with the program counter still at 0x202, and the
\* LdImm V2, 5 that follows was never executed.
DecodeErrorWitness ==
    /\ status = "panicked"
    /\ Len(executed) = 1
    /\ program_counter = \h202
    /\ FromBeBytes(Byte(memory, \h202), Byte(memory, \h203)) = \h8128
    /\ ~fetch(Machine).ok
    /\ registers[1] = 5
    /\ registers[2] = 0

\* C18: a Ret never completes with no Call outstanding: every completed Ret
\* started with the stack pointer above its initial value 80 (so no return
\* address is ever loaded from the font bytes below the stack area).
UnbalancedRetAborts ==
    AfterStep("Ret") => Last.stack_pointer > STACK_START

----------------------------------------------------------------------------
(* Properties of the font, checked under Spec *)

\* memory bytes 0..79 hold the digit font table
FontIntact == \A a \in 0 .. (Len(DIGITS) - 1) : Byte(memory, a) = DIGITS[a + 1]

\* C19 as stated: in every reachable state bytes 0..79 equal the font table.
FontIsImmutable == FontIntact

\* no LdBcd or StrArray executed so far had its address register below 80
NoStoreBelowStack ==
    \A k \in 1 .. Len(executed) :
        executed[k].instr.op \in {"LdBcd", "StrArray"}
            => executed[k].address_register >= STACK_START

\* C19 amended: bytes 0..79 equal the font table as long as no LdBcd or
\* StrArray has executed with the address register below 80; Call and Ret
\* traffic alone never reaches them.
FontIntactUnlessStoredTo == NoStoreBelowStack => FontIntact

\* C19 witness: two nested Calls have pushed their return addresses at 80 and
\* 82 and both Rets have popped them; no store went below 80 and the font is
\* intact.
FontIntactWitness ==
    /\ AfterStep("Ret")
    /\ Len(executed) >= 4
    /\ Prev.instr.op = "Ret"
    /\ stack_pointer = STACK_START
    /\ Byte(memory, STACK_START) # 0 \/ Byte(memory, STACK_START + 1) # 0
    /\ NoStoreBelowStack
    /\ FontIntact

----------------------------------------------------------------------------
(* Properties of the shifts, checked under Spec *)

----------------------------------------------------------------------------
(* Frame conditions, checked under Spec *)

\* the step being taken is one call of decrement_timers: no instruction
\* completes, the machine keeps running and nothing but the timers changes
TickStep ==
    /\ executed' = executed
    /\ status = "running" /\ status' = "running"
    /\ UNCHANGED <<registers, address_register, program_counter, stack_pointer,
                   memory, pixels, update_pending, keys_pressed>>

\* C21: the delay timer changes only in a tick or in a step of StrDelay, the
\* sound timer only in a tick or in a step of StrSound; every other step,
\* the wait of a pending LdKey included, leaves both timers as they are.
TimersChangeOnlyByTickOrStore ==
    [][/\ delay_timer' # delay_timer => (TickStep \/ Step("StrDelay"))
       /\ sound_timer' # sound_timer => (TickStep \/ Step("StrSound"))
       /\ status = "next_key" => timers' = timers]_vars

\* C21 witness: with both timers at 2, Drw, Clr, Call and Ret have executed
\* and the wait of LdKey has stored a key; the timers are still at 2.
TimersFrameWitness ==
    /\ status = "next_key"
    /\ Len(executed) = 7
    /\ \A k \in 4 .. 7 : executed[k].delay_timer = 2 /\ executed[k].sound_timer = 2
    /\ { executed[k].instr.op : k \in 4 .. 7 } = {"Drw", "Clr", "Call", "Ret"}
    /\ registers[1] # 2
    /\ timers = <<2, 2>>

----------------------------------------------------------------------------
(* Properties of the call stack, checked under Spec *)

\* the program counter and the stack pointer the j-th completed step left
PcAfter(j) ==
    IF j < Len(executed) THEN executed[j + 1].program_counter ELSE program_counter
SpAfter(j) ==
    IF j < Len(executed) THEN executed[j + 1].stack_pointer ELSE stack_pointer

\* the state the j-th completed step left is on record: it is the start of
\* the next completed step, or the machine is still running in it
Recorded(j) == j < Len(executed) \/ status = "running"

\* the Ret that is step j pops what the Call that is step i pushed: the stack
\* stayed above the Call's slot in between, and no store instruction ran
OpensFor(i, j) ==
    /\ executed[i].instr.op = "Call"
    /\ executed[j].instr.op = "Ret"
    /\ executed[j].stack_pointer = executed[i].stack_pointer + ADDR_SIZE
    /\ \A m \in (i + 1) .. j :
          /\ executed[m].stack_pointer > executed[i].stack_pointer
          /\ executed[m].instr.op \notin {"StrArray", "LdBcd"}

----------------------------------------------------------------------------
(* Properties of Sys, checked under Spec *)

\* the word at the program counter decodes to Sys
AtSys ==
    /\ InMemory(program_counter, OPCODE_SIZE)
    /\ fetch(Machine).ok
    /\ fetch(Machine).val.op = "Sys"

\* C23: Sys is ignored: its step only advances the program counter, so the
\* run never ends at a Sys word, and a completed Sys step has changed no
\* register, stack or timer state.
SysIsIgnored ==
    /\ AtSys => status # "panicked"
    /\ AfterStep("Sys") =>
          /\ program_counter = Last.program_counter + 2
          /\ registers = Last.registers
          /\ address_register = Last.address_register
          /\ stack_pointer = Last.stack_pointer

----------------------------------------------------------------------------
(* Properties of Drw, checked under Spec *)

\* C24: a step of Drw changes only the display and the program counter
\* (+2): all 16 registers, VF included, memory, the address register, the
\* stack pointer and both timers are as before, whether or not the draw
\* turned a lit pixel off.
DrwReportsNoCollision ==
    [][Step("Drw") =>
          /\ program_counter' = program_counter + 2
          /\ UNCHANGED <<registers, address_register, stack_pointer, delay_timer,
                         sound_timer, memory, keys_pressed, status>>]_vars

\* C24 witness: the second Drw of the digit 1 at (0, 0) has turned lit
\* pixels off, and VF is still 0.
DrwCollisionWitness ==
    /\ AfterStep("Drw")
    /\ Last.pixels \ pixels # {}
    /\ Last.registers[VF] = 0
    /\ registers = Last.registers
    /\ registers[VF] = 0

----------------------------------------------------------------------------
(* Properties of memory bounds, checked under Spec *)

\* the highest byte index the instruction at the program counter touches:
\* the two bytes of the fetch, and past them the bytes the instruction reads
\* or writes
HighestIndex ==
    IF program_counter + 1 >= MEMORY_SIZE \/ ~fetch(Machine).ok
    THEN program_counter + 1
    ELSE LET instr == fetch(Machine).val IN
         CASE instr.op = "LdBcd" -> address_register + 2
           [] instr.op \in {"StrArray", "LdArray"} /\ instr.end > 0 ->
                 address_register + instr.end - 1
           [] instr.op = "Drw" /\ instr.length > 0 ->
                 address_register + instr.length - 1
           [] instr.op = "Call" -> stack_pointer + 1
           [] instr.op = "Ret" -> stack_pointer - 1
           [] OTHER -> program_counter + 1

\* the machine runs and its next instruction touches a byte index >= 4096
OutOfRange == status = "running" /\ HighestIndex >= 4096

\* Call and Ret with the stack pointer at the end of memory, where no run of
\* MaxSteps steps takes it: both fail
StackOutOfRangeFails ==
    /\ \A sp \in 4095 .. 4097 :
          Call([Machine EXCEPT !.stack_pointer = sp], \h200).status = "panicked"
    /\ \A sp \in 4097 .. 4099 :
          Ret([Machine EXCEPT !.stack_pointer = sp]).status = "panicked"

\* C25: an instruction that would touch a byte index >= 4096 (in its fetch,
\* or as LdBcd, StrArray, LdArray, Drw, Call or Ret) does not complete:
\* exec_next from such a state ends the run, whatever the random byte and
\* the build, with the program counter where it was (nothing is wrapped or
\* clamped to carry on); and once the run has ended no step is possible.
OutOfRangeTraps ==
    /\ OutOfRange =>
          \A random \in RandomBytes, overflow_checks \in BOOLEAN :
              LET after == exec_next(Machine, random, overflow_checks) IN
              /\ after.status = "panicked"
              /\ after.program_counter = program_counter
    /\ status = "panicked" => ~ENABLED Next
    /\ StackOutOfRangeFails

\* C25 witness: Drw of 3 rows with I = 0xFFE, whose third row would be byte
\* 4096, has ended the run: nothing was drawn and the step is not on record.
OutOfRangeWitness ==
    /\ status = "panicked"
    /\ Len(executed) = 1
    /\ address_register = \hFFE
    /\ fetch(Machine).ok
    /\ fetch(Machine).val = [op |-> "Drw", x |-> 0, y |-> 0, length |-> 3]
    /\ pixels = {}
    /\ program_counter = \h202

----------------------------------------------------------------------------
(* Properties of deep recursion, checked under SpecDeep *)

\* a machine of RecursionFile that runs is at 0x200 with its stack filled by
\* the return address 0x0202: the states InitDeep starts from are the ones
\* the machine reaches from Init (this holds under Spec as well)
DeepStateIsReached ==
    (file = RecursionFile /\ status = "running"
        /\ stack_pointer <= PROGRAM_START) =>
        /\ program_counter = PROGRAM_START
        /\ (stack_pointer - STACK_START) % ADDR_SIZE = 0
        /\ memory = DeepMemory((stack_pointer - STACK_START) \div ADDR_SIZE)

\* C26 as stated: a Call that finds the stack pointer at 510 or beyond writes
\* its return address into program memory, at byte 512 onward.
CallsFrom510WriteToProgram ==
    (AfterStep("Call") /\ Last.stack_pointer >= 510) =>
        Last.stack_pointer >= PROGRAM_START

\* C26 amended: the stack has no upper bound: Call completes for every stack
\* pointer s with s + 2 <= 4096, writing the return address at s, s + 1 and
\* leaving the stack pointer at s + 2; the Call at 510 (the 216th) still
\* writes below the program, and from 512 on the write lands in the
\* program memory, without any fault.
CallStackUnbounded ==
    /\ DeepStateIsReached
    /\ \A s \in {stack_pointer, 510, 512, 4094} :
          LET after == Call([Machine EXCEPT !.stack_pointer = s], \h200) IN
          /\ after.status = status
          /\ after.stack_pointer = s + 2
          /\ Byte(after.memory, s) = (program_counter + 2) \div 256
          /\ Byte(after.memory, s + 1) = (program_counter + 2) % 256
    /\ AfterStep("Call") =>
          /\ stack_pointer = Last.stack_pointer + 2
          /\ Byte(memory, Last.stack_pointer) = 2
          /\ Byte(memory, Last.stack_pointer + 1) = 2

\* C26 witness: the 217th Call found the stack pointer at 512 and completed:
\* its return address 0x0202 has replaced the program's own word 0x2200 at
\* bytes 512 and 513.
CallIntoProgramWitness ==
    /\ AfterStep("Call")
    /\ Last.stack_pointer = PROGRAM_START
    /\ file = << \h22, \h00 >>
    /\ Byte(memory, PROGRAM_START) = \h02
    /\ Byte(memory, PROGRAM_START + 1) = \h02
    /\ stack_pointer = PROGRAM_START + 2

----------------------------------------------------------------------------
(* Properties of LdDigit, checked under Spec *)

\* the machine stands at an LdDigit
AtLdDigit == InMemory(program_counter, OPCODE_SIZE) /\ fetch(Machine).ok
                /\ fetch(Machine).val.op = "LdDigit"

\* C27: LdDigit with register value v never faults and leaves the address
\* register at 5 * v, whatever v is: the product is not cut to 8 bits; for
\* v in 0 .. 15 the five bytes from there are the font rows of digit v.
LdDigitIsFiveTimes ==
    /\ AtLdDigit => status # "panicked"
    /\ AfterStep("LdDigit") =>
          LET v == Last.registers[Last.instr.register] IN
          /\ address_register = 5 * v
          /\ v <= 15 => /\ address_register <= 75
                        /\ \A i \in 0 .. 4 :
                              Byte(memory, address_register + i) = DIGITS[5 * v + i + 1]

----------------------------------------------------------------------------
(* Properties of the flag register as a destination, checked under Spec *)

\* the flag a completed arithmetic or shift step wrote, from the register
\* values it started with: the carry of the addition, the borrow of the
\* subtraction as the machine computes it, the bit shifted out
FlagWritten(instr, regs) ==
    LET d == regs[instr.dest]
        s == regs[instr.src]
    IN CASE instr.op = "AddReg" -> IF d + s > 255 THEN 1 ELSE 0
         [] instr.op = "Sub" -> IF d < s THEN 1 ELSE 0
         [] instr.op = "SubNeg" -> IF s < d THEN 1 ELSE 0
         [] instr.op = "Shr" -> s % 2
         [] instr.op = "Shl" -> IF s >= 128 THEN 128 ELSE 0

\* the arithmetic result of the same step
ResultWritten(instr, regs) ==
    LET d == regs[instr.dest]
        s == regs[instr.src]
    IN CASE instr.op = "AddReg" -> (d + s) % 256
         [] instr.op = "Sub" -> (d - s) % 256
         [] instr.op = "SubNeg" -> (s - d) % 256
         [] instr.op = "Shr" -> s \div 2
         [] instr.op = "Shl" -> (2 * s) % 256

\* C28: when AddReg, Sub, SubNeg, Shr or Shl names VF as its destination,
\* VF holds the flag after the step and the arithmetic result is lost.
FlagWinsOverResult ==
    \A op \in {"AddReg", "Sub", "SubNeg", "Shr", "Shl"} :
        (AfterStep(op) /\ Last.instr.dest = VF) =>
            registers[VF] = FlagWritten(Last.instr, Last.registers)

\* C28 witness: Shr VF, V1 with V1 = 5 has left VF = 1, the bit shifted
\* out, where the result would have been 2.
FlagWinsWitness ==
    /\ AfterStep("Shr")
    /\ Last.instr = [op |-> "Shr", dest |-> VF, src |-> 1]
    /\ Last.registers[1] = 5
    /\ ResultWritten(Last.instr, Last.registers) = 2
    /\ registers[VF] = 1

----------------------------------------------------------------------------
(* Properties of the wait for a key, checked under Spec *)

\* C29: while LdKey waits in next_key no event makes the machine fail: after
\* any event the wait continues, or it has ended with a key value 0 .. 15 in
\* the register of the LdKey.
WaitIgnoresOtherKeys ==
    [][status = "next_key" =>
          \/ status' = "next_key"
          \/ status' = "running" /\ registers'[LdKeyRegister] \in 0 .. 15]_vars

====
